---- MODULE Spec2Model ----
(***************************************************************************)
(* Model of search_gui.py: the ModernSearchGUI window (UI thread), the     *)
(* SearchThread worker and the files they exchange with the external       *)
(* search script.                                                          *)
(*                                                                         *)
(* Text is modelled as a sequence of one-character strings, so that        *)
(* strip/split, the csv reader and the csv writer are computed character   *)
(* by character.  An optional value (a table cell without an item, a file  *)
(* that does not exist) is the empty tuple <<>>; a present value v is the  *)
(* one-element tuple <<v>>.                                                *)
(***************************************************************************)
EXTENDS Integers, Sequences, FiniteSets, TLC

----------------------------------------------------------------------------
(* Bounds of the model (not program constants).                            *)

\* accepted start_search calls per behaviour (SearchThread objects created)
MaxSearches == 2
\* data rows of a results file under SpecCsv
MaxCsvRows == 3
\* characters of a terms text under SpecTerms
MaxTermsLen == 4

----------------------------------------------------------------------------
(* Characters and text helpers.                                            *)

LF == "\n"
CR == "\r"
QUOTE == "\""
COMMA == ","
SPACE == " "
\* a byte that is not valid UTF-8; decoding a text that holds it raises
BadByte == "<0xFF>"

None == <<>>
Some(v) == <<v>>

\* Python str.strip() removes these from both ends
Whitespace == {SPACE, LF, CR, "\t"}

RECURSIVE LStrip(_)
LStrip(s) ==
  IF s = <<>> THEN <<>>
  ELSE IF Head(s) \in Whitespace THEN LStrip(Tail(s)) ELSE s

RECURSIVE RStrip(_)
RStrip(s) ==
  IF s = <<>> THEN <<>>
  ELSE IF s[Len(s)] \in Whitespace THEN RStrip(SubSeq(s, 1, Len(s) - 1)) ELSE s

\* str.strip()
Strip(s) == RStrip(LStrip(s))

\* str.split(sep) for a one-character separator: always at least one piece
RECURSIVE SplitFrom(_, _, _)
SplitFrom(s, sep, cur) ==
  IF s = <<>> THEN <<cur>>
  ELSE IF Head(s) = sep THEN <<cur>> \o SplitFrom(Tail(s), sep, <<>>)
  ELSE SplitFrom(Tail(s), sep, Append(cur, Head(s)))

Split(s, sep) == SplitFrom(s, sep, <<>>)

\* sub in text  (Python's substring test)
Contains(text, sub) ==
  \E i \in 0..(Len(text) - Len(sub)) :
     \A j \in 1..Len(sub) : text[i + j] = sub[j]

\* text.lower().endswith(suffix) is modelled on the path samples below
EndsWith(text, suffix) ==
  /\ Len(text) >= Len(suffix)
  /\ SubSeq(text, Len(text) - Len(suffix) + 1, Len(text)) = suffix

RECURSIVE Concat(_)
Concat(ss) == IF ss = <<>> THEN <<>> ELSE Head(ss) \o Concat(Tail(ss))

\* the literals of update_summary
sFileName == <<"F", "i", "l", "e", "N", "a", "m", "e">>
sContent == <<"C", "o", "n", "t", "e", "n", "t">>
sMatch == <<" ", "m", "a", "t", "c", "h">>

----------------------------------------------------------------------------
(* Text files: open(..., 'w') / open(..., 'r') newline handling.           *)

\* os.linesep
LineSep(os) == IF os = "nt" THEN <<CR, LF>> ELSE <<LF>>

\* open(path, 'w') without newline=: every "\n" written becomes os.linesep
RECURSIVE WriteTranslate(_, _)
WriteTranslate(s, os) ==
  IF s = <<>> THEN <<>>
  ELSE (IF Head(s) = LF THEN LineSep(os) ELSE <<Head(s)>>)
       \o WriteTranslate(Tail(s), os)

\* open(path, 'r') without newline=: "\r\n" and "\r" are read as "\n"
\* (the "\n" of a "\r\n" pair is dropped, then every "\r" reads as "\n")
AfterCR(pair) == pair[2] = LF /\ pair[1] = CR
NotAfterCR(pair) == ~AfterCR(pair)

UniversalNewlines(s) ==
  LET pairs == [i \in 1..Len(s) |-> <<IF i > 1 THEN s[i - 1] ELSE "", s[i]>>]
      kept == SelectSeq(pairs, NotAfterCR)
  IN [i \in 1..Len(kept) |-> IF kept[i][2] = CR THEN LF ELSE kept[i][2]]

\* decoding as UTF-8 raises UnicodeDecodeError on an invalid byte
Decodable(bytes) == \A i \in 1..Len(bytes) : bytes[i] # BadByte

----------------------------------------------------------------------------
(* csv.writer (excel dialect, QUOTE_MINIMAL).                              *)

NeedsQuote(field) ==
  \E i \in 1..Len(field) : field[i] \in {COMMA, QUOTE, CR, LF}

\* mutant of DoubleQuotes: quote characters are written as they are
DoubleQuotes_single(field) == field

RECURSIVE DoubleQuotes(_)
DoubleQuotes(field) ==
  IF field = <<>> THEN <<>>
  ELSE (IF Head(field) = QUOTE THEN <<QUOTE, QUOTE>> ELSE <<Head(field)>>)
       \o DoubleQuotes(Tail(field))

WriteField(field, alone) ==
  IF NeedsQuote(field) \/ (alone /\ field = <<>>)
  THEN <<QUOTE>> \o DoubleQuotes(field) \o <<QUOTE>>
  ELSE field

RECURSIVE JoinFields(_, _)
JoinFields(row, alone) ==
  IF row = <<>> THEN <<>>
  ELSE WriteField(Head(row), alone)
       \o (IF Len(row) > 1 THEN <<COMMA>> ELSE <<>>)
       \o JoinFields(Tail(row), alone)

\* writer.writerow(row) with line terminator term
writerow(row, term) == JoinFields(row, Len(row) = 1) \o term

RECURSIVE writerows(_, _)
writerows(rows, term) ==
  IF rows = <<>> THEN <<>>
  ELSE writerow(Head(rows), term) \o writerows(Tail(rows), term)

----------------------------------------------------------------------------
(* csv.reader (excel dialect, not strict) over a text whose line           *)
(* terminators are "\n".  The reader's automaton is run one field at a     *)
(* time: ReadField scans from position i in state st with `field`          *)
(* collected so far, up to the delimiter, line end or text end that saves  *)
(* the field.                                                              *)

RECURSIVE ReadField(_, _, _, _)
ReadField(s, i, st, field) ==
  IF i > Len(s)
  THEN \* end of the text: the pending field is saved
       [field |-> field, next |-> i, last |-> TRUE]
  ELSE
    LET c == s[i] IN
    CASE st = "IN_QUOTED_FIELD" ->
           IF c = QUOTE
           THEN ReadField(s, i + 1, "QUOTE_IN_QUOTED_FIELD", field)
           ELSE ReadField(s, i + 1, "IN_QUOTED_FIELD", Append(field, c))
      [] st = "QUOTE_IN_QUOTED_FIELD" ->
           IF c = QUOTE
           THEN ReadField(s, i + 1, "IN_QUOTED_FIELD", Append(field, c))
           ELSE IF c = COMMA
           THEN [field |-> field, next |-> i + 1, last |-> FALSE]
           ELSE IF c = LF
           THEN [field |-> field, next |-> i + 1, last |-> TRUE]
           ELSE ReadField(s, i + 1, "IN_FIELD", Append(field, c))
      [] st = "IN_FIELD" ->
           IF c = LF
           THEN [field |-> field, next |-> i + 1, last |-> TRUE]
           ELSE IF c = COMMA
           THEN [field |-> field, next |-> i + 1, last |-> FALSE]
           ELSE ReadField(s, i + 1, "IN_FIELD", Append(field, c))
      [] OTHER ->
           \* START_FIELD
           IF c = LF
           THEN [field |-> field, next |-> i + 1, last |-> TRUE]
           ELSE IF c = QUOTE
           THEN ReadField(s, i + 1, "IN_QUOTED_FIELD", field)
           ELSE IF c = COMMA
           THEN [field |-> field, next |-> i + 1, last |-> FALSE]
           ELSE ReadField(s, i + 1, "IN_FIELD", Append(field, c))

\* the fields of the record that starts at position i
RECURSIVE ReadRecord(_, _, _)
ReadRecord(s, i, rec) ==
  LET f == ReadField(s, i, "START_FIELD", <<>>) IN
  IF f.last
  THEN [rec |-> Append(rec, f.field), next |-> f.next]
  ELSE ReadRecord(s, f.next, Append(rec, f.field))

\* the records from position i on (START_RECORD): an empty line is the
\* record []
RECURSIVE ReadRecords(_, _)
ReadRecords(s, i) ==
  IF i > Len(s) THEN <<>>
  ELSE IF s[i] = LF THEN <<<<>>>> \o ReadRecords(s, i + 1)
  ELSE LET r == ReadRecord(s, i, <<>>) IN
       <<r.rec>> \o ReadRecords(s, r.next)

\* list(csv.reader(f)) for f opened with open(path, 'r', encoding='utf-8')
csv_reader(bytes) == ReadRecords(UniversalNewlines(bytes), 1)

----------------------------------------------------------------------------
(* Samples the inputs are drawn from.                                      *)

tFileName == sFileName \o sMatch
tContent == sContent \o sMatch
\* a first column that contains both literals of update_summary
tBoth == sFileName \o sContent
tOther == <<"D", "i", "r">>

\* QLineEdit texts of the search path
Paths == {<<".">>, <<SPACE, "/", "d", SPACE>>, <<>>}
Themes == {"Dark Mode", "Modern Blue"}
OsNames == {"posix", "nt"}

\* what the child process can print and how it can end
SpawnErrors == {"[Errno 2] No such file or directory: 'bash'"}
DecodeErrors == {"'utf-8' codec can't decode byte 0xff"}

\* destinations the save dialog can return: cancelled, a .csv path (the
\* results file of the installation directory) and a .txt path
NoPath == <<>>
ResultsCsvPath == <<"s", ".", "c", "s", "v">>
OutTxtPath == <<"o", ".", "t", "x", "t">>

\* header row the script writes (spec, section 8)
ScriptHeader ==
  << <<"T", "y", "p", "e">>, <<"F", "i", "l", "e", "P", "a", "t", "h">>,
     sFileName, <<"L", "i", "n", "e">>, <<"T", "e", "r", "m">>,
     <<"M", "a", "t", "c", "h">> >>

\* data rows the script can write: one with fewer than six fields, one
\* with six, one with more than six
RowShort == << tFileName, <<"/", "d">>, <<"a">> >>
RowFull == << tContent, <<"/", "d">>, <<"b">>, <<"7">>, <<"x">>,
              <<"x", COMMA, QUOTE, "y">> >>
RowLong == << tOther, <<>>, <<"c">>, <<"1">>, <<"x">>, <<"z">>, <<"e">> >>

SeqsUpTo(S, n) == UNION {[1..k -> S] : k \in 0..n}

\* the text of a results file holding the data rows `rows`
ScriptCsv(rows, os) ==
  writerows(<<ScriptHeader>> \o rows, LineSep(os))

----------------------------------------------------------------------------
(* State.                                                                  *)

VARIABLES
  \* --- widgets of ModernSearchGUI ---
  path_edit,            \* QLineEdit text
  terms_edit,           \* QTextEdit plain text
  regex_edit,           \* QTextEdit plain text
  case_sensitive_cb,    \* QCheckBox checked
  search_btn_text,      \* label of the start-search button
  search_btn_enabled,
  save_btn_enabled,
  progress_bar_visible,
  status_bar,           \* message shown in the status bar
  results_table,        \* sequence of rows, each 6 optional cell texts
  log_output,           \* sequence of appended entries
  summary_text,         \* optional summary
  current_theme,
  \* --- worker ---
  search_thread,        \* self.search_thread: 0 (None) or a thread id
  threads,              \* SearchThread objects by id
  ui_events,            \* signals queued for the UI thread, in emission order
  \* --- files ---
  terms_list,           \* optional content of .terms_list
  regex_list,           \* optional content of .regex_list
  results_csv,          \* optional content of search_results.csv
  saved_txt,            \* optional content of the exported text file
  script_rows,          \* optional: the data rows the script wrote into
                        \* search_results.csv, while that file is the script's
  \* --- environment and trace ---
  os_name,
  op,                   \* the step taken last
  dialog                \* the message box that step opened, or "none"

widgets == <<path_edit, terms_edit, regex_edit, case_sensitive_cb,
             search_btn_text, search_btn_enabled, save_btn_enabled,
             progress_bar_visible, status_bar, results_table, log_output,
             summary_text, current_theme>>
worker == <<search_thread, threads, ui_events>>
files == <<terms_list, regex_list, results_csv, saved_txt, script_rows>>
vars == <<widgets, worker, files, os_name, op, dialog>>

ColumnCount == 6

StartLabel == "Start Search"
SearchingLabel == "Searching..."

ThreadIds == 1..MaxSearches

\* a SearchThread that does not exist (not yet created, or released)
NoThread ==
  [pc |-> "none", args |-> <<>>, returncode |-> None, stdout |-> None,
   stderr |-> None, exc |-> None, emitted |-> <<>>]

\* QThread.isRunning(): from start() until run() has returned
isRunning(t) == t.pc \in {"started", "waiting", "emitted"}

Running == {i \in ThreadIds : isRunning(threads[i])}

----------------------------------------------------------------------------
(* The result table (QTableWidget with six columns).                       *)

EmptyRow == [c \in 1..ColumnCount |-> None]

\* QTableWidget.setRowCount(n): rows past n are dropped with their items,
\* new rows have no items
setRowCount(table, n) ==
  [r \in 1..n |-> IF r <= Len(table) THEN table[r] ELSE EmptyRow]

\* item.text() if item else ""
CellText(cell) == IF cell = None THEN <<>> ELSE cell[1]

\* the loop of load_results: setItem(row_idx, col_idx, ...) for row[:6]
FillRows(table, rows) ==
  [r \in 1..Len(table) |->
     [c \in 1..ColumnCount |->
        IF r <= Len(rows) /\ c <= Len(rows[r])
        THEN Some(rows[r][c]) ELSE table[r][c]]]

\* mutant of CountTypes: the second test is an `if`, not an `elif`
RECURSIVE CountTypes_two_ifs(_, _, _, _)
CountTypes_two_ifs(table, r, filename_matches, content_matches) ==
  IF r > Len(table)
  THEN [filename_matches |-> filename_matches,
        content_matches |-> content_matches]
  ELSE LET search_type_item == table[r][1] IN
       IF search_type_item = None
       THEN CountTypes_two_ifs(table, r + 1, filename_matches, content_matches)
       ELSE CountTypes_two_ifs(table, r + 1,
              filename_matches
                + (IF Contains(search_type_item[1], sFileName) THEN 1 ELSE 0),
              content_matches
                + (IF Contains(search_type_item[1], sContent) THEN 1 ELSE 0))

\* the counting loop of update_summary, rows r..Len(table)
RECURSIVE CountTypes(_, _, _, _)
CountTypes(table, r, filename_matches, content_matches) ==
  IF r > Len(table)
  THEN [filename_matches |-> filename_matches,
        content_matches |-> content_matches]
  ELSE LET search_type_item == table[r][1] IN
       IF search_type_item = None
       THEN CountTypes(table, r + 1, filename_matches, content_matches)
       ELSE IF Contains(search_type_item[1], sFileName)
       THEN CountTypes(table, r + 1, filename_matches + 1, content_matches)
       ELSE IF Contains(search_type_item[1], sContent)
       THEN CountTypes(table, r + 1, filename_matches, content_matches + 1)
       ELSE CountTypes(table, r + 1, filename_matches, content_matches)

\* update_summary(total_matches) over the table `table`; of the HTML it
\* builds the model keeps the three counters and the theme
update_summary(table, total_matches, theme) ==
  LET n == CountTypes(table, 1, 0, 0) IN
  [total |-> total_matches,
   filename_matches |-> n.filename_matches,
   content_matches |-> n.content_matches,
   theme |-> theme]

\* mutant of clear_results: the export button is left as it was
clear_results_keeps_save_btn ==
  /\ results_table' = setRowCount(results_table, 0)
  /\ log_output' = <<>>
  /\ summary_text' = None
  /\ save_btn_enabled' = save_btn_enabled

\* mutant of clear_results: the rows of the table are left in place
clear_results_keeps_rows ==
  /\ results_table' = results_table
  /\ log_output' = <<>>
  /\ summary_text' = None
  /\ save_btn_enabled' = FALSE

\* clear_results(): the part of start_search that empties the views
clear_results ==
  /\ results_table' = setRowCount(results_table, 0)
  /\ log_output' = <<>>
  /\ summary_text' = None
  /\ save_btn_enabled' = FALSE

\* rows = list(csv_reader) after next(csv_reader, None) skipped the header
DataRows(bytes) ==
  LET parsed == csv_reader(bytes) IN
  IF parsed = <<>> THEN <<>> ELSE Tail(parsed)

\* the table load_results leaves when it reads `bytes` over `table`
LoadedTable(table, bytes) ==
  FillRows(setRowCount(table, Len(DataRows(bytes))), DataRows(bytes))

\* mutant of load_results: an absent file is reported like an unreadable one
load_results_absent_warns(readable) ==
  IF results_csv = None \/ ~readable \/ ~Decodable(results_csv[1])
  THEN /\ UNCHANGED <<results_table, summary_text>>
       /\ dialog' = "Load Error"
  ELSE /\ results_table' = LoadedTable(results_table, results_csv[1])
       /\ summary_text' =
            Some(update_summary(results_table', Len(results_table'),
                                current_theme))
       /\ dialog' = "none"

\* load_results(); `readable` is whether open() succeeds.  A file that
\* cannot be opened or decoded raises before the table is touched.
load_results(readable) ==
  IF results_csv = None
  THEN /\ UNCHANGED <<results_table, summary_text>>
       /\ dialog' = "none"
  ELSE IF ~readable \/ ~Decodable(results_csv[1])
  THEN /\ UNCHANGED <<results_table, summary_text>>
       /\ dialog' = "Load Error"
  ELSE /\ results_table' = LoadedTable(results_table, results_csv[1])
       /\ summary_text' =
            Some(update_summary(results_table', Len(results_table'),
                                current_theme))
       /\ dialog' = "none"

----------------------------------------------------------------------------
(* The list files.                                                         *)

\* mutant of KeptLines: the lines are written without line.strip()
RECURSIVE KeptLines_unstripped(_)
KeptLines_unstripped(lines) ==
  IF lines = <<>> THEN <<>>
  ELSE (IF Strip(Head(lines)) # <<>> THEN Head(lines) \o <<LF>> ELSE <<>>)
       \o KeptLines_unstripped(Tail(lines))

\* the lines prepare_search_files writes, from the split editor text
RECURSIVE KeptLines(_)
KeptLines(lines) ==
  IF lines = <<>> THEN <<>>
  ELSE LET line == Strip(Head(lines)) IN
       (IF line # <<>> THEN line \o <<LF>> ELSE <<>>) \o KeptLines(Tail(lines))

\* mutant of WriteListFile: a blank text truncates the file
WriteListFile_truncates(text, file, os) ==
  LET stripped == Strip(text) IN
  IF stripped # <<>>
  THEN Some(WriteTranslate(KeptLines(Split(stripped, LF)), os))
  ELSE Some(<<>>)

\* one list file after prepare_search_files: `file` is its content before
WriteListFile(text, file, os) ==
  LET stripped == Strip(text) IN
  IF stripped # <<>>
  THEN Some(WriteTranslate(KeptLines(Split(stripped, LF)), os))
  ELSE file

\* mutant of prepare_search_files: the regex file is not written
prepare_search_files_terms_only ==
  /\ terms_list' = WriteListFile(terms_edit, terms_list, os_name)
  /\ regex_list' = regex_list

prepare_search_files ==
  /\ terms_list' = WriteListFile(terms_edit, terms_list, os_name)
  /\ regex_list' = WriteListFile(regex_edit, regex_list, os_name)

----------------------------------------------------------------------------
(* start_search.                                                           *)

\* the argument vector start_search builds
BuildArgs(os) ==
  LET path == Strip(path_edit) IN
  (IF path # <<>>
   THEN << <<IF os = "nt" THEN "-SearchPath" ELSE "-p">>, path >> ELSE <<>>)
  \o (IF case_sensitive_cb
      THEN << <<IF os = "nt" THEN "-CaseSensitive" ELSE "-c">> >> ELSE <<>>)

\* mutant of search_in_flight: the running thread is not checked
search_in_flight_unchecked == FALSE

\* the early return of start_search
search_in_flight ==
  search_thread # 0 /\ isRunning(threads[search_thread])

\* the SearchThread objects after self.search_thread was rebound to a new
\* one: the previous object is released once its run() has returned
ThreadsAfterStart(new) ==
  [i \in ThreadIds |->
     IF i = new
     THEN [NoThread EXCEPT !.pc = "started", !.args = BuildArgs(os_name)]
     ELSE IF isRunning(threads[i]) THEN threads[i] ELSE NoThread]

\* mutant of start_search: the list files are written before the check for
\* a running thread
start_search_prepares_first ==
  /\ search_btn_enabled
  /\ op' = "start_search"
  /\ dialog' = "none"
  /\ prepare_search_files
  /\ IF search_in_flight
     THEN UNCHANGED <<widgets, worker, results_csv, saved_txt, script_rows,
                      os_name>>
     ELSE /\ search_thread < MaxSearches
          /\ clear_results
          /\ search_thread' = search_thread + 1
          /\ threads' = ThreadsAfterStart(search_thread')
          /\ search_btn_text' = SearchingLabel
          /\ search_btn_enabled' = FALSE
          /\ progress_bar_visible' = TRUE
          /\ status_bar' = "Search in progress..."
          /\ UNCHANGED <<path_edit, terms_edit, regex_edit, case_sensitive_cb,
                         current_theme, ui_events, results_csv,
                         saved_txt, script_rows, os_name>>

\* the slot of search_btn.clicked: it runs when the enabled button is
\* clicked
start_search ==
  /\ search_btn_enabled
  /\ op' = "start_search"
  /\ dialog' = "none"
  /\ IF search_in_flight
     THEN UNCHANGED <<widgets, worker, files, os_name>>
     ELSE /\ search_thread < MaxSearches
          /\ prepare_search_files
          /\ clear_results
          /\ search_thread' = search_thread + 1
          /\ threads' = ThreadsAfterStart(search_thread')
          /\ search_btn_text' = SearchingLabel
          /\ search_btn_enabled' = FALSE
          /\ progress_bar_visible' = TRUE
          /\ status_bar' = "Search in progress..."
          /\ UNCHANGED <<path_edit, terms_edit, regex_edit, case_sensitive_cb,
                         current_theme, ui_events, results_csv,
                         saved_txt, script_rows, os_name>>

----------------------------------------------------------------------------
(* SearchThread.run, on the worker thread.  A signal emitted there is      *)
(* queued for the UI thread (the receiver lives in the UI thread).         *)

\* a signal with its str argument; the argument is a literal prefix of the
\* code followed by a captured text
Signal(sig, pre, msg) == [sig |-> sig, text |-> [pre |-> pre, msg |-> msg]]

ProgressSignal == Signal("progress", "Starting search...", "")
FinishedSignal(stdout) == Signal("finished", "", stdout)
ErrorSignal(stderr) == Signal("error", "Error: ", stderr)
ExceptionSignal(e) == Signal("error", "Failed to run search: ", e)

\* what the try block of run() emits once the child is known to have been
\* spawned and communicate() has returned or raised
Outcome(returncode, stdout, stderr, exc) ==
  IF exc # None THEN ExceptionSignal(exc[1])
  ELSE IF returncode = 0 THEN FinishedSignal(stdout)
  ELSE ErrorSignal(stderr)

\* mutant of run_spawn: an exception of Popen is swallowed without a signal
run_spawn_swallows(i, spawned, e) ==
  /\ threads[i].pc = "started"
  /\ IF spawned
     THEN /\ threads' = [threads EXCEPT ![i].pc = "waiting",
                                        ![i].emitted = <<ProgressSignal>>]
          /\ ui_events' = Append(ui_events, ProgressSignal)
     ELSE /\ threads' = [threads EXCEPT
               ![i].pc = "emitted",
               ![i].exc = Some(e),
               ![i].emitted = <<ProgressSignal>>]
          /\ ui_events' = Append(ui_events, ProgressSignal)
  /\ op' = "run_spawn"
  /\ dialog' = "none"
  /\ UNCHANGED <<widgets, search_thread, files, os_name>>

\* run() up to subprocess.Popen: the progress signal, then the child is
\* spawned or Popen raises
run_spawn(i, spawned, e) ==
  /\ threads[i].pc = "started"
  /\ IF spawned
     THEN /\ threads' = [threads EXCEPT ![i].pc = "waiting",
                                        ![i].emitted = <<ProgressSignal>>]
          /\ ui_events' = Append(ui_events, ProgressSignal)
     ELSE /\ threads' = [threads EXCEPT
               ![i].pc = "emitted",
               ![i].exc = Some(e),
               ![i].emitted = <<ProgressSignal, ExceptionSignal(e)>>]
          /\ ui_events' = ui_events \o <<ProgressSignal, ExceptionSignal(e)>>
  /\ op' = "run_spawn"
  /\ dialog' = "none"
  /\ UNCHANGED <<widgets, search_thread, files, os_name>>

\* process.communicate() and the branch on process.returncode: the child
\* runs to its end with exit code `returncode`, leaving `file` as the
\* results file (written with the data rows rows[1], kept or removed);
\* communicate() then returns the decoded stdout and stderr, or raises
\* exc[1] while decoding them
run_communicate(i, returncode, stdout, stderr, exc, file, rows) ==
  /\ threads[i].pc = "waiting"
  /\ LET sig == Outcome(returncode, stdout, stderr, exc) IN
       /\ threads' = [threads EXCEPT
            ![i].pc = "emitted",
            ![i].returncode = Some(returncode),
            ![i].stdout = IF exc # None THEN None ELSE Some(stdout),
            ![i].stderr = IF exc # None THEN None ELSE Some(stderr),
            ![i].exc = exc,
            ![i].emitted = Append(@, sig)]
       /\ ui_events' = Append(ui_events, sig)
  /\ results_csv' = file
  /\ script_rows' = rows
  /\ op' = "run_communicate"
  /\ dialog' = "none"
  /\ UNCHANGED <<widgets, search_thread, terms_list, regex_list, saved_txt,
                 os_name>>

\* run() returns: its locals are gone and isRunning() becomes false
run_return(i) ==
  /\ threads[i].pc = "emitted"
  /\ threads' = [threads EXCEPT ![i] = [NoThread EXCEPT !.pc = "finished",
                                                        !.args = threads[i].args]]
  /\ op' = "run_return"
  /\ dialog' = "none"
  /\ UNCHANGED <<widgets, search_thread, ui_events, files, os_name>>

----------------------------------------------------------------------------
(* Slots of the worker's signals, on the UI thread, in emission order.     *)

LogEntry(pre, text) == [pre |-> pre, text |-> text]

update_progress ==
  /\ ui_events # <<>>
  /\ Head(ui_events).sig = "progress"
  /\ LET message == Head(ui_events).text IN
       /\ log_output' = Append(log_output, LogEntry("", message))
       /\ status_bar' = message.pre
  /\ ui_events' = Tail(ui_events)
  /\ op' = "update_progress"
  /\ dialog' = "none"
  /\ UNCHANGED <<path_edit, terms_edit, regex_edit, case_sensitive_cb,
                 search_btn_text, search_btn_enabled,
                 save_btn_enabled, progress_bar_visible, results_table,
                 summary_text, current_theme, search_thread, threads, files,
                 os_name>>

\* mutant of search_finished: the export button is enabled only when the
\* results were loaded
search_finished_needs_load ==
  /\ ui_events # <<>>
  /\ Head(ui_events).sig = "finished"
  /\ search_btn_text' = StartLabel
  /\ search_btn_enabled' = TRUE
  /\ progress_bar_visible' = FALSE
  /\ log_output' = Append(log_output, LogEntry("\n", Head(ui_events).text))
  /\ \E readable \in BOOLEAN : load_results(readable)
  /\ save_btn_enabled' = (dialog' # "Load Error")
  /\ status_bar' = "Search completed"
  /\ ui_events' = Tail(ui_events)
  /\ op' = "search_finished"
  /\ UNCHANGED <<path_edit, terms_edit, regex_edit, case_sensitive_cb,
                 current_theme, search_thread, threads, files,
                 os_name>>

search_finished ==
  /\ ui_events # <<>>
  /\ Head(ui_events).sig = "finished"
  /\ search_btn_text' = StartLabel
  /\ search_btn_enabled' = TRUE
  /\ save_btn_enabled' = TRUE
  /\ progress_bar_visible' = FALSE
  /\ log_output' = Append(log_output, LogEntry("\n", Head(ui_events).text))
  /\ \E readable \in BOOLEAN : load_results(readable)
  /\ status_bar' = "Search completed"
  /\ ui_events' = Tail(ui_events)
  /\ op' = "search_finished"
  /\ UNCHANGED <<path_edit, terms_edit, regex_edit, case_sensitive_cb,
                 current_theme, search_thread, threads, files,
                 os_name>>

\* mutant of search_error: the start-search button is not enabled again
search_error_keeps_disabled ==
  /\ ui_events # <<>>
  /\ Head(ui_events).sig = "error"
  /\ search_btn_text' = StartLabel
  /\ search_btn_enabled' = search_btn_enabled
  /\ progress_bar_visible' = FALSE
  /\ log_output' = Append(log_output, LogEntry("\nERROR: ", Head(ui_events).text))
  /\ status_bar' = "Search failed"
  /\ dialog' = "Search Error"
  /\ ui_events' = Tail(ui_events)
  /\ op' = "search_error"
  /\ UNCHANGED <<path_edit, terms_edit, regex_edit, case_sensitive_cb,
                 save_btn_enabled, results_table, summary_text,
                 current_theme, search_thread, threads, files, os_name>>

search_error ==
  /\ ui_events # <<>>
  /\ Head(ui_events).sig = "error"
  /\ search_btn_text' = StartLabel
  /\ search_btn_enabled' = TRUE
  /\ progress_bar_visible' = FALSE
  /\ log_output' = Append(log_output, LogEntry("\nERROR: ", Head(ui_events).text))
  /\ status_bar' = "Search failed"
  /\ dialog' = "Search Error"
  /\ ui_events' = Tail(ui_events)
  /\ op' = "search_error"
  /\ UNCHANGED <<path_edit, terms_edit, regex_edit, case_sensitive_cb,
                 save_btn_enabled, results_table, summary_text,
                 current_theme, search_thread, threads, files, os_name>>

----------------------------------------------------------------------------
(* Export.                                                                 *)

\* horizontalHeaderItem(col).text() of the six columns
HeaderLabels ==
  << <<"T", "y", "p", "e">>,
     <<"F", "i", "l", "e", " ", "P", "a", "t", "h">>,
     <<"F", "i", "l", "e", " ", "N", "a", "m", "e">>,
     <<"L", "i", "n", "e">>, <<"T", "e", "r", "m">>,
     <<"M", "a", "t", "c", "h">> >>

\* row_data of every table row: item.text() if item else ""
TableTexts(table) ==
  [r \in 1..Len(table) |-> [c \in 1..ColumnCount |-> CellText(table[r][c])]]

\* the bytes save_as_csv writes (the file is opened with newline='', so
\* the writer's "\r\n" terminators reach the file as they are)
CsvExport(table) ==
  writerows(<<HeaderLabels>> \o TableTexts(table), <<CR, LF>>)

\* the transcript save_as_text writes, as the values it formats
TextExport(table) ==
  [search_path |-> path_edit,
   case_sensitive |-> IF case_sensitive_cb THEN "Yes" ELSE "No",
   total |-> Len(table),
   results |-> TableTexts(table)]

\* save_as_csv(file_path): the only .csv destination of the model is the
\* results file of the installation directory
save_as_csv ==
  /\ results_csv' = Some(CsvExport(results_table))
  /\ script_rows' = None
  /\ UNCHANGED saved_txt

save_as_text ==
  /\ saved_txt' = Some(TextExport(results_table))
  /\ UNCHANGED <<results_csv, script_rows>>

\* mutant of save_results: the row count is not checked
save_results_skips_row_check(file_path, writable) ==
  /\ save_btn_enabled
  /\ op' = "save_results"
  /\ IF file_path = NoPath
     THEN /\ dialog' = "none"
          /\ UNCHANGED <<status_bar, results_csv, saved_txt, script_rows>>
     ELSE IF ~writable
     THEN /\ dialog' = "Save Error"
          /\ UNCHANGED <<status_bar, results_csv, saved_txt, script_rows>>
     ELSE /\ IF EndsWith(file_path, <<".", "c", "s", "v">>)
             THEN save_as_csv ELSE save_as_text
          /\ dialog' = "Save Successful"
          /\ status_bar' = "Results saved"
  /\ UNCHANGED <<path_edit, terms_edit, regex_edit, case_sensitive_cb,
                 search_btn_text, search_btn_enabled,
                 save_btn_enabled, progress_bar_visible, results_table,
                 log_output, summary_text, current_theme, worker, terms_list,
                 regex_list, os_name>>

\* the slot of save_btn.clicked; file_path is what the save dialog returns,
\* writable whether open(file_path, 'w') succeeds
save_results(file_path, writable) ==
  /\ save_btn_enabled
  /\ op' = "save_results"
  /\ IF Len(results_table) = 0
     THEN /\ dialog' = "No Results"
          /\ UNCHANGED <<status_bar, results_csv, saved_txt, script_rows>>
     ELSE IF file_path = NoPath
     THEN /\ dialog' = "none"
          /\ UNCHANGED <<status_bar, results_csv, saved_txt, script_rows>>
     ELSE IF ~writable
     THEN /\ dialog' = "Save Error"
          /\ UNCHANGED <<status_bar, results_csv, saved_txt, script_rows>>
     ELSE /\ IF EndsWith(file_path, <<".", "c", "s", "v">>)
             THEN save_as_csv ELSE save_as_text
          /\ dialog' = "Save Successful"
          /\ status_bar' = "Results saved"
  /\ UNCHANGED <<path_edit, terms_edit, regex_edit, case_sensitive_cb,
                 search_btn_text, search_btn_enabled,
                 save_btn_enabled, progress_bar_visible, results_table,
                 log_output, summary_text, current_theme, worker, terms_list,
                 regex_list, os_name>>

----------------------------------------------------------------------------
(* The other slots and the user's edits of the input widgets.              *)

\* the slot of theme_combo.currentTextChanged
change_theme(theme_name) ==
  /\ theme_name # current_theme
  /\ current_theme' = theme_name
  /\ summary_text' =
       IF Len(results_table) > 0
       THEN Some(update_summary(results_table, Len(results_table), theme_name))
       ELSE summary_text
  /\ op' = "change_theme"
  /\ dialog' = "none"
  /\ UNCHANGED <<path_edit, terms_edit, regex_edit, case_sensitive_cb,
                 search_btn_text, search_btn_enabled,
                 save_btn_enabled, progress_bar_visible, status_bar,
                 results_table, log_output, worker, files, os_name>>

\* folders the directory dialog can return (empty: cancelled)
Folders == {<<>>, <<"/", "e">>}

\* the slot of path_browse_btn.clicked
browse_path(folder) ==
  /\ path_edit' = IF folder # <<>> THEN folder ELSE path_edit
  /\ op' = "browse_path"
  /\ dialog' = "none"
  /\ UNCHANGED <<terms_edit, regex_edit, case_sensitive_cb,
                 search_btn_text, search_btn_enabled, save_btn_enabled,
                 progress_bar_visible, status_bar, results_table, log_output,
                 summary_text, current_theme, worker, files, os_name>>

\* the user types into the search path field
edit_path(text) ==
  /\ path_edit' = text
  /\ op' = "edit_path"
  /\ dialog' = "none"
  /\ UNCHANGED <<terms_edit, regex_edit, case_sensitive_cb, search_btn_text,
                 search_btn_enabled, save_btn_enabled, progress_bar_visible,
                 status_bar, results_table, log_output, summary_text,
                 current_theme, worker, files, os_name>>

\* the user types into the search terms editor
edit_terms(text) ==
  /\ terms_edit' = text
  /\ op' = "edit_terms"
  /\ dialog' = "none"
  /\ UNCHANGED <<path_edit, regex_edit, case_sensitive_cb, search_btn_text,
                 search_btn_enabled, save_btn_enabled, progress_bar_visible,
                 status_bar, results_table, log_output, summary_text,
                 current_theme, worker, files, os_name>>

\* the user types into the regex patterns editor
edit_regex(text) ==
  /\ regex_edit' = text
  /\ op' = "edit_regex"
  /\ dialog' = "none"
  /\ UNCHANGED <<path_edit, terms_edit, case_sensitive_cb, search_btn_text,
                 search_btn_enabled, save_btn_enabled, progress_bar_visible,
                 status_bar, results_table, log_output, summary_text,
                 current_theme, worker, files, os_name>>

\* the user toggles the case-sensitive check box
toggle_case_sensitive ==
  /\ case_sensitive_cb' = ~case_sensitive_cb
  /\ op' = "toggle_case_sensitive"
  /\ dialog' = "none"
  /\ UNCHANGED <<path_edit, terms_edit, regex_edit, search_btn_text,
                 search_btn_enabled, save_btn_enabled, progress_bar_visible,
                 status_bar, results_table, log_output, summary_text,
                 current_theme, worker, files, os_name>>

----------------------------------------------------------------------------
(* The window: ModernSearchGUI.__init__ and every step after it.           *)

\* a list file left in the installation directory by an earlier session
OldList == <<"o", "l", "d", LF>>

\* the input widgets after ModernSearchGUI.__init__
InitInputs ==
  /\ path_edit = <<".">>
  /\ terms_edit = <<>>
  /\ regex_edit = <<>>
  /\ case_sensitive_cb = FALSE

\* the rest of the window after ModernSearchGUI.__init__
InitWindow ==
  /\ search_btn_text = StartLabel
  /\ search_btn_enabled = TRUE
  /\ save_btn_enabled = FALSE
  /\ progress_bar_visible = FALSE
  /\ status_bar = "Ready"
  /\ results_table = <<>>
  /\ log_output = <<>>
  /\ summary_text = None
  /\ current_theme = "Dark Mode"
  /\ search_thread = 0
  /\ threads = [i \in ThreadIds |-> NoThread]
  /\ ui_events = <<>>
  /\ op = "init"
  /\ dialog = "none"

\* The installation directory may hold the files of an earlier session.
Init ==
  /\ InitInputs
  /\ InitWindow
  /\ os_name \in OsNames
  /\ \E old \in {None, Some(OldList)} :
       terms_list = old /\ regex_list = old
  /\ \E rows \in {None, Some(<<RowFull>>)} :
       /\ script_rows = rows
       /\ results_csv =
            IF rows = None THEN None ELSE Some(ScriptCsv(rows[1], os_name))
  /\ saved_txt = None

\* the data rows the script can write in the window model
ScriptRowLists ==
  {<<>>, <<RowShort>>, <<RowFull, RowShort>>, <<RowShort, RowFull>>}

\* what the child does to the results file: keeps it, removes it, writes
\* it, or leaves bytes that are not UTF-8; <<file, rows>>
FileEffects ==
  {<<results_csv, script_rows>>, <<None, None>>, <<Some(<<BadByte>>), None>>}
  \cup {<<Some(ScriptCsv(rows, os_name)), Some(rows)>> : rows \in ScriptRowLists}

\* steps of the worker thread, the child's behaviour drawn from the sets
\* given
WorkerSteps(Codes, Outs, Errs) ==
  \/ \E i \in ThreadIds, spawned \in BOOLEAN, e \in SpawnErrors :
       run_spawn(i, spawned, e)
  \/ \E i \in ThreadIds, returncode \in Codes, stdout \in Outs, stderr \in Errs,
        exc \in {None} \cup {Some(e) : e \in DecodeErrors},
        effect \in FileEffects :
       run_communicate(i, returncode, stdout, stderr, exc, effect[1], effect[2])
  \/ \E i \in ThreadIds : run_return(i)

\* slots of the worker's signals
SignalSlots ==
  \/ update_progress
  \/ search_finished
  \/ search_error

\* The window with its worker.  The user starts searches, edits the search
\* terms, browses for a path, changes the theme and exports as CSV.
Next ==
  \/ start_search
  \/ WorkerSteps({0, 1}, {"Search complete"}, {"No such directory"})
  \/ SignalSlots
  \/ \E file_path \in {NoPath, ResultsCsvPath}, writable \in BOOLEAN :
       save_results(file_path, writable)
  \/ \E theme_name \in Themes : change_theme(theme_name)
  \/ \E folder \in Folders : browse_path(folder)
  \/ \E text \in {<<>>, <<SPACE, "a", LF, LF, "b", SPACE>>} : edit_terms(text)

Spec == Init /\ [][Next]_vars

----------------------------------------------------------------------------
(* The search life cycle as the window shows it.                           *)

\* The state of the spec's state machine, read off the widgets: Searching
\* while the start-search button carries the searching label; otherwise
\* the last entry of the log tells how the last search ended.
SearchState ==
  IF search_btn_text = SearchingLabel THEN "Searching"
  ELSE IF log_output = <<>> THEN "Idle"
  ELSE IF log_output[Len(log_output)].pre = "\n" THEN "Succeeded"
  ELSE IF log_output[Len(log_output)].pre = "\nERROR: " THEN "Failed"
  ELSE "Idle"

\* the outcome signal a run has emitted (the last signal of the run)
OutcomeOf(t) == t.emitted[Len(t.emitted)]

C2_AtMostOneWorker == Cardinality(Running) <= 1

\* C2 witness: a start request arrived while the thread was still running,
\* and still only that thread runs.
C2_Witness ==
  /\ op = "start_search"
  /\ Running = {search_thread}
  /\ search_btn_enabled

\* C3: a start request while the SearchThread is running changes nothing:
\* no thread is created, no signal queued, the list files, the table, the
\* log and the summary stay as they are; and the outcome the log shows is
\* the one that thread emitted.
C3_IgnoredStartIsNoOp ==
  [][ (op' = "start_search" /\ Running # {}) =>
        /\ UNCHANGED <<widgets, worker, files>>
        /\ ui_events' = <<>> =>
             log_output'[Len(log_output')].text
               = OutcomeOf(threads'[search_thread']).text
    ]_vars

\* C3 witness: a start request was ignored while the terms editor held
\* entries, the list files were there and the table had rows.
C3_Witness ==
  /\ op = "start_search"
  /\ Running # {}
  /\ Strip(terms_edit) # <<>>
  /\ results_table # <<>>
  /\ terms_list # Some(WriteTranslate(KeptLines(Split(Strip(terms_edit), LF)), os_name))

\* C4: the export button is enabled exactly in Succeeded: it is enabled by
\* search_finished only and disabled by an accepted start_search only.
C4_ExportOnlyInSucceeded ==
  /\ save_btn_enabled = (SearchState = "Succeeded")
  /\ [][ /\ save_btn_enabled' = (SearchState' = "Succeeded")
         /\ (save_btn_enabled' /\ ~save_btn_enabled) => op' = "search_finished"
         /\ (~save_btn_enabled' /\ save_btn_enabled) =>
              (op' = "start_search" /\ search_thread' # search_thread)
       ]_vars

\* C4 witness: the second search runs after a first search that left rows
\* to export, and the export button is disabled.
C4_Witness ==
  /\ search_thread = 2
  /\ SearchState = "Searching"
  /\ ~save_btn_enabled
  /\ saved_txt = None
  /\ script_rows = None /\ results_csv # None
  /\ Decodable(results_csv[1])

\* C5 (as claimed): a run that reached the end of its try block emitted the
\* progress signal and exactly one outcome: with exit code 0 the success
\* signal carrying stdout, with another exit code the failure signal
\* carrying stderr, and without a child the failure signal carrying the
\* exception's message.
C5_OutcomeFromExitCode ==
  \A i \in ThreadIds :
    LET t == threads[i] IN
    t.pc = "emitted" =>
      /\ Len(t.emitted) = 2
      /\ t.emitted[1] = ProgressSignal
      /\ t.returncode = Some(0) =>
           /\ OutcomeOf(t).sig = "finished"
           /\ t.stdout # None
           /\ OutcomeOf(t).text = [pre |-> "", msg |-> t.stdout[1]]
      /\ (t.returncode # None /\ t.returncode # Some(0)) =>
           /\ OutcomeOf(t).sig = "error"
           /\ t.stderr # None
           /\ OutcomeOf(t).text = [pre |-> "Error: ", msg |-> t.stderr[1]]
      /\ t.returncode = None =>
           /\ OutcomeOf(t).sig = "error"
           /\ t.exc # None
           /\ OutcomeOf(t).text =
                [pre |-> "Failed to run search: ", msg |-> t.exc[1]]

\* C8: the table after search_finished holds the rows of the results file
\* that load read, loaded into an empty table, and nothing else; while a
\* search is shown as running the table is empty.
C8_ReplacedWholesale ==
  /\ SearchState = "Searching" => results_table = <<>>
  /\ op = "search_finished" =>
       results_table =
         IF results_csv = None \/ dialog = "Load Error" THEN <<>>
         ELSE LoadedTable(<<>>, results_csv[1])

\* C8 witness: the second search has succeeded and loaded a file with a
\* short row.
C8_Witness ==
  /\ op = "search_finished"
  /\ search_thread = 2
  /\ script_rows = Some(<<RowShort>>)
  /\ Len(results_table) = 1
  /\ results_table[1][ColumnCount] = None

----------------------------------------------------------------------------
(* Loading and exporting results files: load_results, update_summary and   *)
(* save_as_csv applied to results files drawn from a larger set.           *)

RowBoth == << tBoth, <<"l", LF, "m">>, <<SPACE, "s", SPACE>>, <<>>, <<>>,
              <<QUOTE>> >>
RowOne == << tContent >>
RowCR == << tFileName, <<"a", CR, "b">>, <<"n">>, <<"1">>, <<"t">>,
            <<"u", CR, LF, "v">> >>
CsvRows == {RowShort, RowFull, RowLong, RowBoth, RowOne, RowCR}

InitCsv ==
  /\ InitInputs
  /\ InitWindow
  /\ os_name \in OsNames
  /\ terms_list = None
  /\ regex_list = None
  /\ saved_txt = None
  /\ \E rows \in SeqsUpTo(CsvRows, MaxCsvRows) :
       /\ script_rows = Some(rows)
       /\ results_csv = Some(ScriptCsv(rows, os_name))

\* what a search cycle does to the table: clear_results() of start_search,
\* then load_results() of search_finished with the file readable
reload_results ==
  /\ results_csv # None
  /\ results_table' = LoadedTable(setRowCount(results_table, 0), results_csv[1])
  /\ summary_text' =
       Some(update_summary(results_table', Len(results_table'), current_theme))
  /\ op' = "load_results"
  /\ dialog' = "none"
  /\ UNCHANGED <<path_edit, terms_edit, regex_edit, case_sensitive_cb,
                 search_btn_text, search_btn_enabled, save_btn_enabled,
                 progress_bar_visible, status_bar, log_output, current_theme,
                 worker, files, os_name>>

\* save_as_csv(file_path) with the results file as its destination
export_csv ==
  /\ save_as_csv
  /\ op' = "save_as_csv"
  /\ dialog' = "none"
  /\ UNCHANGED <<widgets, worker, terms_list, regex_list, os_name>>

NextCsv ==
  \/ reload_results
  \/ export_csv
  \/ \E theme_name \in Themes : change_theme(theme_name)

SpecCsv == InitCsv /\ [][NextCsv]_vars

\* the table the claim expects for the data rows `rows`
ExpectedTable(rows) ==
  [r \in 1..Len(rows) |->
     [c \in 1..ColumnCount |->
        IF c <= Len(rows[r]) THEN Some(rows[r][c]) ELSE None]]

\* C6 (as claimed): after load_results the table has one row per data row
\* of the file, in file order, holding the first six fields verbatim and
\* no item where the data row has no field.
C6_LoadVerbatim ==
  (op = "load_results" /\ script_rows # None) =>
    results_table = ExpectedTable(script_rows[1])

\* C7: loading a file that save_as_csv wrote from the table reproduces the
\* table: as many rows, in the same order, the same text in every cell.
C7_RoundTrip ==
  [][ (op = "save_as_csv" /\ op' = "load_results") =>
        TableTexts(results_table') = TableTexts(results_table) ]_vars

\* C7 witness: an exported file was loaded again; the table has a cell with
\* a line break, a cell with a quote and a row that had a single field.
C7_Witness ==
  /\ op = "load_results"
  /\ script_rows = None
  /\ \E r \in 1..Len(results_table) :
       /\ results_table[r][2] = Some(<<"l", LF, "m">>)
       /\ results_table[r][ColumnCount] = Some(<<QUOTE>>)
  /\ \E r \in 1..Len(results_table) :
       /\ results_table[r][1] = Some(tContent)
       /\ results_table[r][2] = Some(<<>>)

\* the text of the first column of row r, <<>> without an item
FirstColumn(r) == CellText(results_table[r][1])

RowsWith(sub) ==
  {r \in 1..Len(results_table) : Contains(FirstColumn(r), sub)}

\* C9 (as claimed): the summary counts the rows whose first column
\* contains "FileName", the rows whose first column contains "Content",
\* and all rows.
C9_SummaryCounts ==
  summary_text # None =>
    /\ summary_text[1].filename_matches = Cardinality(RowsWith(sFileName))
    /\ summary_text[1].content_matches = Cardinality(RowsWith(sContent))
    /\ summary_text[1].total = Len(results_table)

\* C9 (amended): content_matches counts the rows whose first column
\* contains "Content" and does not contain "FileName".
C9_SummaryCountsExclusive ==
  summary_text # None =>
    /\ summary_text[1].filename_matches = Cardinality(RowsWith(sFileName))
    /\ summary_text[1].content_matches =
         Cardinality(RowsWith(sContent) \ RowsWith(sFileName))
    /\ summary_text[1].total = Len(results_table)

\* C9 witness: the spec's example, first column FileName match, Content
\* match, FileName match, summarised as 2, 1 and 3.
C9_Witness ==
  /\ Len(results_table) = 3
  /\ <<FirstColumn(1), FirstColumn(2), FirstColumn(3)>>
       = <<tFileName, tContent, tFileName>>
  /\ summary_text # None
  /\ summary_text[1].filename_matches = 2
  /\ summary_text[1].content_matches = 1
  /\ summary_text[1].total = 3

----------------------------------------------------------------------------
(* Writing the list files: prepare_search_files applied to editor texts    *)
(* drawn from every text of up to MaxTermsLen characters.                  *)

TermsAlphabet == {"a", "b", SPACE, LF}
TermsTexts == SeqsUpTo(TermsAlphabet, MaxTermsLen)

InitTerms ==
  /\ InitWindow
  /\ path_edit = <<".">>
  /\ case_sensitive_cb = FALSE
  /\ terms_edit \in TermsTexts
  /\ regex_edit \in {<<>>, <<"c">>}
  /\ os_name \in OsNames
  /\ \E old \in {None, Some(OldList)} :
       terms_list = old /\ regex_list = old
  /\ results_csv = None
  /\ script_rows = None
  /\ saved_txt = None

\* prepare_search_files() as start_search calls it
write_list_files ==
  /\ prepare_search_files
  /\ op' = "prepare_search_files"
  /\ dialog' = "none"
  /\ UNCHANGED <<widgets, worker, results_csv, saved_txt, script_rows, os_name>>

NextTerms == write_list_files

SpecTerms == InitTerms /\ [][NextTerms]_vars

NonBlank(text) == \E i \in 1..Len(text) : text[i] \notin Whitespace
NonEmpty(text) == text # <<>>

\* the lines of the editor text, each trimmed
TrimmedLines(text) ==
  [i \in 1..Len(Split(text, LF)) |-> Strip(Split(text, LF)[i])]

\* the file the claim expects: the non-blank trimmed lines in order, each
\* followed by the line separator
ExpectedListFile(text, os) ==
  LET entries == SelectSeq(TrimmedLines(text), NonEmpty) IN
  Concat([i \in 1..Len(entries) |-> entries[i] \o LineSep(os)])

\* C10: when the terms text is not blank, the terms file written by
\* prepare_search_files holds exactly the non-blank lines of the text, each
\* trimmed, in their order, one per line, whatever the file held before.
C10_TermsFile ==
  (op = "prepare_search_files" /\ NonBlank(terms_edit)) =>
    terms_list = Some(ExpectedListFile(terms_edit, os_name))

\* C10 witness: a text with a blank line between two entries was written
\* over an older file.
C10_Witness ==
  /\ op = "prepare_search_files"
  /\ terms_edit = <<"b", LF, LF, "a">>
  /\ terms_list = Some(<<"b", LF, "a", LF>>)
  /\ regex_list = Some(OldList)

----------------------------------------------------------------------------
(* The list files over successive searches: the user edits the two         *)
(* editors between searches.                                               *)

NextLists ==
  \/ start_search
  \/ WorkerSteps({0}, {"Search complete"}, {"No such directory"})
  \/ SignalSlots
  \/ \E text \in {<<>>, <<SPACE, LF>>, <<"a">>} : edit_terms(text)
  \/ \E text \in {<<SPACE>>, <<"c">>} : edit_regex(text)

SpecLists == Init /\ [][NextLists]_vars

\* a start_search step that passed the check for a running thread
Accepted == op' = "start_search" /\ search_thread' # search_thread

\* C11: an accepted start_search with a blank terms text leaves the terms
\* file exactly as it was (absent stays absent, content stays content), and
\* likewise the regex file for a blank regex text; the list files do not
\* change while the worker runs, so the script of the new run reads what an
\* earlier search wrote.
C11_BlankLeavesFile ==
  [][ /\ (Accepted /\ ~NonBlank(terms_edit)) => terms_list' = terms_list
      /\ (Accepted /\ ~NonBlank(regex_edit)) => regex_list' = regex_list
      /\ Running # {} => UNCHANGED <<terms_list, regex_list>>
    ]_vars

\* C11 witness: the script of a second search runs; its request has a
\* whitespace-only terms text and the terms file still holds the entry the
\* first search wrote, its regex text is blank and the regex file was never
\* created.
C11_Witness ==
  /\ search_thread = 2
  /\ threads[2].pc = "waiting"
  /\ terms_edit = <<SPACE, LF>>
  /\ terms_list = Some(WriteTranslate(<<"a", LF>>, os_name))
  /\ regex_edit = <<SPACE>>
  /\ regex_list = None

\* C12 (as claimed): an accepted start_search writes both list files before
\* it starts the worker, and they do not change while the worker runs, so
\* when the script runs both files exist and hold the entries of the
\* request (no entry for a blank text).
C12_ListFilesReady ==
  [][ /\ Accepted =>
           /\ terms_list' = Some(ExpectedListFile(terms_edit, os_name))
           /\ regex_list' = Some(ExpectedListFile(regex_edit, os_name))
      /\ Running # {} => UNCHANGED <<terms_list, regex_list>>
    ]_vars

\* C12 (amended): an accepted start_search writes the list file of every
\* non-blank text before it starts the worker, and the list files do not
\* change while the worker runs, so when the script runs the file of a
\* non-blank text exists and holds the entries of the request.
C12_NonBlankListFilesReady ==
  [][ /\ (Accepted /\ NonBlank(terms_edit)) =>
           terms_list' = Some(ExpectedListFile(terms_edit, os_name))
      /\ (Accepted /\ NonBlank(regex_edit)) =>
           regex_list' = Some(ExpectedListFile(regex_edit, os_name))
      /\ Running # {} => UNCHANGED <<terms_list, regex_list>>
    ]_vars

\* C12 witness: the script of a second search runs while both files hold
\* the entries of its request, and the user has already typed another
\* terms text.
C12_Witness ==
  /\ search_thread = 2
  /\ threads[2].pc = "waiting"
  /\ terms_edit = <<SPACE, LF>>
  /\ regex_edit = <<"c">>
  /\ terms_list = Some(WriteTranslate(<<"a", LF>>, os_name))
  /\ regex_list = Some(WriteTranslate(<<"c", LF>>, os_name))
  /\ op = "edit_terms"

----------------------------------------------------------------------------
(* The end of a successful search: search_finished and load_results.       *)

\* C13: when the results file is absent as search_finished runs, the table
\* stays empty, there is no summary, no message box is opened, and the
\* search ends in Succeeded with both buttons enabled.
C13_AbsentFileSilent ==
  (op = "search_finished" /\ results_csv = None) =>
    /\ results_table = <<>>
    /\ summary_text = None
    /\ dialog = "none"
    /\ SearchState = "Succeeded"
    /\ search_btn_enabled
    /\ save_btn_enabled
    /\ status_bar = "Search completed"

\* C13 witness: a second search succeeded after the child removed the
\* results file.
C13_Witness ==
  /\ op = "search_finished"
  /\ results_csv = None
  /\ search_thread = 2
  /\ dialog = "none"

----------------------------------------------------------------------------
(* Export after a search: the user edits the search path and the           *)
(* case-sensitive check box between searches and exports as text.          *)

NextExport ==
  \/ start_search
  \/ WorkerSteps({0}, {"Search complete"}, {"No such directory"})
  \/ SignalSlots
  \/ \E file_path \in {NoPath, OutTxtPath}, writable \in BOOLEAN :
       save_results(file_path, writable)
  \/ \E text \in {<<"/", "e", SPACE>>} : edit_path(text)
  \/ toggle_case_sensitive

SpecExport == Init /\ [][NextExport]_vars

\* C14: save_results with a table of zero rows reports "No Results" and
\* does nothing else, whatever the save dialog would have returned: no file
\* is written and no widget changes.
C14_NoRowsNoExport ==
  [][ (op' = "save_results" /\ Len(results_table) = 0) =>
        /\ dialog' = "No Results"
        /\ UNCHANGED <<widgets, worker, files>>
    ]_vars

\* C14 witness: export was requested in Succeeded with a header-only
\* results file; nothing was written.
C14_Witness ==
  /\ op = "save_results"
  /\ dialog = "No Results"
  /\ SearchState = "Succeeded"
  /\ save_btn_enabled
  /\ script_rows = Some(<<>>)
  /\ results_csv = Some(ScriptCsv(<<>>, os_name))
  /\ saved_txt = None

\* C15: when load_results fails in search_finished, the failure is
\* reported by the one "Load Error" warning of that step and no failure
\* signal follows; the search ends in Succeeded with both buttons enabled
\* and "Search completed" in the status bar; the table and the summary are
\* left as they were when the failure occurred.
C15_LoadFailureKeepsOutcome ==
  [][ (op' = "search_finished" /\ dialog' = "Load Error") =>
        /\ SearchState' = "Succeeded"
        /\ search_btn_enabled'
        /\ save_btn_enabled'
        /\ status_bar' = "Search completed"
        /\ results_table' = results_table
        /\ summary_text' = summary_text
        /\ ui_events' = <<>>
    ]_vars

\* C15 witness: a search succeeded whose results file could not be opened
\* although the script wrote two rows to it.
C15_Witness ==
  /\ op = "search_finished"
  /\ dialog = "Load Error"
  /\ SearchState = "Succeeded"
  /\ save_btn_enabled
  /\ results_csv # None
  /\ script_rows = Some(<<RowFull, RowShort>>)
  /\ results_table = <<>>

\* the argument vector of the request a text export reports
ReportedArgs(export, os) ==
  (IF Strip(export.search_path) # <<>>
   THEN << <<IF os = "nt" THEN "-SearchPath" ELSE "-p">>,
           Strip(export.search_path) >>
   ELSE <<>>)
  \o (IF export.case_sensitive = "Yes"
      THEN << <<IF os = "nt" THEN "-CaseSensitive" ELSE "-c">> >> ELSE <<>>)

\* C16 (as claimed): a text export reports the search path and the
\* case-sensitivity flag that the search which produced the loaded rows was
\* started with, and as total the number of rows of the table.
C16_ExportReportsRequest ==
  [][ (op' = "save_results" /\ dialog' = "Save Successful") =>
        /\ saved_txt' # None
        /\ ReportedArgs(saved_txt'[1], os_name) = threads[search_thread].args
        /\ saved_txt'[1].total = Len(results_table)
    ]_vars

----------------------------------------------------------------------------
(* The start-search button and the worker thread.                          *)

\* C17 (as claimed): whenever the start-search button is enabled no
\* SearchThread is running, so a start request made then is accepted.
C17_EnabledMeansIdle == search_btn_enabled => Running = {}

----------------------------------------------------------------------------
(* Progress of a search.  The worker thread is scheduled and its child     *)
(* exits or fails to spawn (weak fairness of the worker's steps); the      *)
(* event loop of the UI thread delivers the queued signals (weak fairness  *)
(* of the slots).  The user is under no obligation to start a search.      *)

RunSteps == WorkerSteps({0, 1}, {"Search complete"}, {"No such directory"})

NextLive ==
  \/ start_search
  \/ RunSteps
  \/ SignalSlots

SpecLive ==
  /\ Init
  /\ [][NextLive]_vars
  /\ WF_vars(RunSteps)
  /\ WF_vars(SignalSlots)

\* C18: every accepted start_search is eventually followed by the end of
\* that search, Succeeded or Failed, with the start-search button enabled
\* again; search_finished and search_error run only while the window shows
\* Searching and end it, so a search gets one terminal outcome and no more.
C18_EverySearchEnds ==
  /\ \A i \in ThreadIds :
       (search_thread = i /\ SearchState = "Searching")
         ~> (/\ search_thread = i
             /\ SearchState \in {"Succeeded", "Failed"}
             /\ search_btn_enabled)
  /\ [][ op' \in {"search_finished", "search_error"} =>
           /\ SearchState = "Searching"
           /\ SearchState' \in {"Succeeded", "Failed"}
           /\ ui_events' = <<>>
       ]_vars

\* C18 witness: the second search has ended, in failure, after the first
\* one had ended; no signal is left in the queue.
C18_Witness ==
  /\ search_thread = 2
  /\ op = "search_error"
  /\ SearchState = "Failed"
  /\ search_btn_enabled
  /\ ui_events = <<>>
  /\ threads[2].returncode = Some(1)

====
